---- MODULE Spec2Model ----
(***************************************************************************)
(* Roadmap Resolution Pipeline of Pathfinity (generateAndSaveRoadmap and   *)
(* its helpers).  Strings on which the code performs string operations     *)
(* are sequences of one-character strings; JavaScript values whose type    *)
(* the code inspects are tagged records [k |-> kind, ...].                 *)
(*                                                                         *)
(* Spec        one invocation of generateAndSaveRoadmap against a store    *)
(*             holding one profile row, two campuses, three catalog rows   *)
(*             and two templates.  The store answers every read and the    *)
(*             update; only the catalog queries of the lookup loop and     *)
(*             the model call may fault.                                   *)
(* SpecMatch   findMatchingPathway on bounded names and collections.       *)
(* SpecParse   the response parsing of processPathwayWithAI on bounded     *)
(*             texts.                                                      *)
(* SpecExtract extractPathwayCourses on bounded templates.                 *)
(***************************************************************************)
EXTENDS Integers, Sequences, FiniteSets, TLC

VARIABLES
    \* ---- generateAndSaveRoadmap: one invocation against the store ----
    pc,              \* position of the invocation
    profileId,       \* argument of the invocation
    profileRow,      \* the store's profile table: the row with id 1
    storeBefore,     \* the profile row as it was before the invocation
    now,             \* the store clock read by new Date()
    profileData,     \* local: the row read at the start
    campusInfo,      \* local: the resolved campus
    matchingPathway, \* local: the matched template
    pathwayCourses,  \* local: extracted course codes
    lookupLog,       \* the catalog queries issued so far, in order
    lookupFaults,    \* positions in lookupLog of the queries that faulted
    courseData,      \* local: the enrichment map (key -> entry)
    text,            \* local: the model's response text
    processedRoadmap,\* local: the parsed and normalized response
    modelCalls,      \* number of generateText calls made
    writes,          \* number of profile updates performed
    error,           \* the fault thrown to the caller, if any
    \* ---- findMatchingPathway as a pure function ----
    mProgram, mTemplates, mResult, mPhase,
    \* ---- response parsing as a pure function ----
    rText, rOutcome, rValue, rPhase,
    \* ---- extractPathwayCourses as a pure function ----
    eTemplate, eResult, ePhase

pipeVars  == <<pc, profileId, profileRow, storeBefore, now, profileData, campusInfo,
               matchingPathway, pathwayCourses, lookupLog, lookupFaults,
               courseData, text, processedRoadmap, modelCalls, writes, error>>
matchVars == <<mProgram, mTemplates, mResult, mPhase>>
parseVars == <<rText, rOutcome, rValue, rPhase>>
extrVars  == <<eTemplate, eResult, ePhase>>
vars      == <<pipeVars, matchVars, parseVars, extrVars>>

----------------------------------------------------------------------------
(* JavaScript strings *)

UpperChars == <<"A","B","C","D","E","F","G","H","I","J","K","L","M",
                "N","O","P","Q","R","S","T","U","V","W","X","Y","Z">>
LowerChars == <<"a","b","c","d","e","f","g","h","i","j","k","l","m",
                "n","o","p","q","r","s","t","u","v","w","x","y","z">>
DigitChars == {"0","1","2","3","4","5","6","7","8","9"}

IsUpper(c) == \E i \in 1..26 : UpperChars[i] = c
IsDigit(c) == c \in DigitChars
IsSpace(c) == c \in {" ", "\t", "\n"}

Min(S) == CHOOSE x \in S : \A y \in S : x <= y
Max(S) == CHOOSE x \in S : \A y \in S : x >= y

\* String.prototype.toLowerCase
toLowerCaseChar(c) ==
    IF IsUpper(c) THEN LowerChars[CHOOSE i \in 1..26 : UpperChars[i] = c] ELSE c
toLowerCase(s) == [i \in 1..Len(s) |-> toLowerCaseChar(s[i])]

\* String.prototype.trim
trim(s) ==
    LET keep == {i \in 1..Len(s) : ~IsSpace(s[i])}
    IN  IF keep = {} THEN <<>> ELSE SubSeq(s, Min(keep), Max(keep))

\* String.prototype.includes
includes(s, sub) ==
    \E i \in 0..(Len(s) - Len(sub)) : SubSeq(s, i + 1, i + Len(sub)) = sub

\* All sequences over alphabet A of length at most n.
SeqsUpTo(A, n) == UNION {[1..k -> A] : k \in 0..n}

Null == [k |-> "null"]
Undefined == [k |-> "undefined"]

----------------------------------------------------------------------------
(* findMatchingPathway *)

\* Index of the first element of seq satisfying Test, or 0.
FirstIndex(seq, Test(_)) ==
    LET hits == {i \in 1..Len(seq) : Test(seq[i])}
    IN  IF hits = {} THEN 0 ELSE Min(hits)

\* A variant that falls back to the first template of the catalog.
findMatchingPathwayDefaultFirst(programName, templates) ==
    LET normalized == trim(toLowerCase(programName))
        Exact(t) == trim(toLowerCase(t.program_name)) = normalized
        Partial(t) == includes(toLowerCase(t.program_name), normalized)
        Reverse(t) == includes(normalized, toLowerCase(t.program_name))
        e == FirstIndex(templates, Exact)
        p == FirstIndex(templates, Partial)
        r == FirstIndex(templates, Reverse)
    IN  IF e # 0 THEN templates[e]
        ELSE IF p # 0 THEN templates[p]
        ELSE IF r # 0 THEN templates[r]
        ELSE IF Len(templates) > 0 THEN templates[1]
        ELSE Null

findMatchingPathway(programName, templates) ==
    LET normalized == trim(toLowerCase(programName))
        Exact(t) == trim(toLowerCase(t.program_name)) = normalized
        Partial(t) == includes(toLowerCase(t.program_name), normalized)
        Reverse(t) == includes(normalized, toLowerCase(t.program_name))
        e == FirstIndex(templates, Exact)
        p == FirstIndex(templates, Partial)
        r == FirstIndex(templates, Reverse)
    IN  IF e # 0 THEN templates[e]
        ELSE IF p # 0 THEN templates[p]
        ELSE IF r # 0 THEN templates[r]
        ELSE Null

----------------------------------------------------------------------------
(* Pathway templates *)

Str(s) == [k |-> "str", v |-> s]

Slot(name) == [name |-> name, credits |-> 3]
Semester(names) ==
    [semester_name |-> "fall_semester", credits |-> 3 * Len(names),
     courses |-> [i \in 1..Len(names) |-> Slot(names[i])]]
Year(n, sems) == [year_number |-> n, semesters |-> sems]
Template(name, inst, credits, years) ==
    [program_name |-> name, institution |-> inst,
     total_credits |-> credits, years |-> years]

----------------------------------------------------------------------------
(* extractPathwayCourses *)

RECURSIVE Concat(_)
Concat(ss) == IF ss = <<>> THEN <<>> ELSE Head(ss) \o Concat(Tail(ss))

\* Index just past the longest run of characters of class Cls starting at i.
RunEnd(s, i, Cls(_)) ==
    Min({j \in i..(Len(s) + 1) : j = Len(s) + 1 \/ ~Cls(s[j])})

\* /([A-Z]+)\s+(\d+[A-Z]*)/ anchored at i: index just past the match, 0 if none.
CodeMatchAt(s, i) ==
    LET a == RunEnd(s, i, IsUpper)
        b == RunEnd(s, a, IsSpace)
        c == RunEnd(s, b, IsDigit)
        d == RunEnd(s, c, IsUpper)
    IN  IF a > i /\ b > a /\ c > b THEN d ELSE 0

\* String.prototype.match with the g flag: leftmost, non-overlapping matches.
RECURSIVE CodeMatchesFrom(_, _)
CodeMatchesFrom(s, i) ==
    IF i > Len(s) THEN <<>>
    ELSE LET e == CodeMatchAt(s, i)
         IN  IF e # 0 THEN <<SubSeq(s, i, e - 1)>> \o CodeMatchesFrom(s, e)
             ELSE CodeMatchesFrom(s, i + 1)
CodeMatches(s) == CodeMatchesFrom(s, 1)

\* Insertion-ordered Set: the first occurrence of each element.
Unique(seq) ==
    LET firsts == {i \in 1..Len(seq) : \A j \in 1..(i - 1) : seq[j] # seq[i]}
        Nth(n) == CHOOSE i \in firsts : Cardinality({j \in firsts : j < i}) = n - 1
    IN  [n \in 1..Cardinality(firsts) |-> seq[Nth(n)]]

SlotNames(pathwayTemplate) ==
    Concat([y \in 1..Len(pathwayTemplate.years) |->
        LET sems == pathwayTemplate.years[y].semesters
        IN  Concat([s \in 1..Len(sems) |->
                [c \in 1..Len(sems[s].courses) |-> sems[s].courses[c].name]])])

extractPathwayCourses(pathwayTemplate) ==
    LET names == SlotNames(pathwayTemplate)
    IN  Unique(Concat([n \in 1..Len(names) |->
            LET m == CodeMatches(names[n])
            IN  [i \in 1..Len(m) |-> trim(m[i])]]))

----------------------------------------------------------------------------
(* JavaScript values: Str, Num, Arr, Obj, Null, Undefined *)

Num(n) == [k |-> "num", v |-> n]
Arr(seq) == [k |-> "arr", v |-> seq]
Obj(fields) == [k |-> "obj", f |-> fields]

\* ToBoolean
Truthy(x) ==
    CASE x.k = "null" -> FALSE
      [] x.k = "undefined" -> FALSE
      [] x.k = "str" -> x.v # <<>>
      [] x.k = "num" -> x.v # 0
      [] OTHER -> TRUE

\* a || b
Or(a, b) == IF Truthy(a) THEN a ELSE b

\* o[key] of an object's own fields
Get(fields, key) == IF key \in DOMAIN fields THEN fields[key] ELSE Undefined

\* { ...fields } without the key
Without(fields, key) == [x \in (DOMAIN fields) \ {key} |-> fields[x]]

\* fields with key set to value
With(fields, key, value) == (key :> value) @@ fields

Digits == <<"0","1","2","3","4","5","6","7","8","9">>
RECURSIVE Decimal(_)
Decimal(n) ==
    IF n < 10 THEN <<Digits[n + 1]>>
    ELSE Decimal(n \div 10) \o <<Digits[(n % 10) + 1]>>

\* String(it); an array joins its elements with commas
RECURSIVE String(_)
String(it) ==
    CASE it.k = "str" -> it.v
      [] it.k = "num" -> Decimal(it.v)
      [] it.k = "null" -> <<"n","u","l","l">>
      [] it.k = "undefined" -> <<"u","n","d","e","f","i","n","e","d">>
      [] it.k = "arr" ->
            Concat([i \in 1..Len(it.v) |->
                (IF i > 1 THEN <<",">> ELSE <<>>) \o
                (IF it.v[i].k \in {"null", "undefined"} THEN <<>> ELSE String(it.v[i]))])
      [] OTHER -> <<"[","o","b","j","e","c","t"," ","O","b","j","e","c","t","]">>

----------------------------------------------------------------------------
(* normalizeStringArray *)

\* The map callback: a string, an object's string text, or String(it).
EntryText(it) ==
    IF it.k = "str" THEN it.v
    ELSE IF it.k = "obj" /\ Get(it.f, "text").k = "str" THEN Get(it.f, "text").v
    ELSE String(it)

normalizeStringArray(arr) ==
    IF ~Truthy(arr) THEN Undefined
    ELSE IF arr.k # "arr" THEN Undefined   \* .map is not a function: caught
    ELSE LET mapped == [i \in 1..Len(arr.v) |-> EntryText(arr.v[i])]
             kept == {i \in 1..Len(mapped) : Len(trim(mapped[i])) > 0}
             Nth(n) == CHOOSE i \in kept : Cardinality({j \in kept : j < i}) = n - 1
         IN  Arr([n \in 1..Cardinality(kept) |-> Str(mapped[Nth(n)])])

----------------------------------------------------------------------------
(* Response text: tokens "{" "}" "," , "k" for a quoted key with its colon,  *)
(* "1" for a scalar value, "x" for a character of prose.                    *)

RECURSIVE ValueEnd(_, _), ObjectEnd(_, _), MembersEnd(_, _)
\* Index just past the JSON value starting at i, 0 if there is none.
ValueEnd(s, i) ==
    IF i > Len(s) THEN 0
    ELSE IF s[i] = "1" THEN i + 1
    ELSE IF s[i] = "{" THEN ObjectEnd(s, i)
    ELSE 0
ObjectEnd(s, i) ==
    IF i + 1 <= Len(s) /\ s[i + 1] = "}" THEN i + 2 ELSE MembersEnd(s, i + 1)
MembersEnd(s, i) ==
    IF i > Len(s) \/ s[i] # "k" THEN 0
    ELSE LET e == ValueEnd(s, i + 1)
         IN  IF e = 0 \/ e > Len(s) THEN 0
             ELSE IF s[e] = "}" THEN e + 1
             ELSE IF s[e] = "," THEN MembersEnd(s, e + 1)
             ELSE 0

\* JSON.parse accepts the whole span as one value.
JsonParses(span) == ValueEnd(span, 1) = Len(span) + 1

NoMatch == <<>>

\* A lazy variant: from the first "{" to the nearest "}" after it.
jsonMatchLazy(t) ==
    LET opens == {i \in 1..Len(t) : t[i] = "{"}
    IN  IF opens = {} THEN NoMatch
        ELSE LET closes == {j \in (Min(opens) + 1)..Len(t) : t[j] = "}"}
             IN  IF closes = {} THEN NoMatch
                 ELSE SubSeq(t, Min(opens), Min(closes))

\* text.match(/\{[\s\S]*\}/): leftmost "{", then greedily to the last "}".
jsonMatch(t) ==
    LET opens == {i \in 1..Len(t) : t[i] = "{"}
    IN  IF opens = {} THEN NoMatch
        ELSE LET closes == {j \in (Min(opens) + 1)..Len(t) : t[j] = "}"}
             IN  IF closes = {} THEN NoMatch
                 ELSE SubSeq(t, Min(opens), Max(closes))

\* Outcome of lines 239-244 on a response text.
parseOutcome(t) ==
    LET m == jsonMatch(t)
    IN  IF m = NoMatch THEN "NoJSON"
        ELSE IF ~JsonParses(m) THEN "SyntaxError"
        ELSE "parsed"

----------------------------------------------------------------------------
(* The store: campuses, course catalog, template file *)

UH_MANOA == <<"u","h","_","m","a","n","o","a">>
UH_HILO  == <<"u","h","_","h","i","l","o">>

\* rows of the campus table
CampusTable ==
    << [id |-> UH_MANOA, name |-> <<"M","a","n","o","a">>,
        aliases |-> Arr(<<Str(<<"U","H","M">>)>>)],
       [id |-> UH_HILO, name |-> <<"H","i","l","o">>, aliases |-> Null] >>

\* rows of the course table
CourseTable ==
    { [campusId |-> UH_MANOA, coursePrefix |-> <<"I","C","S">>,
       courseNumber |-> <<"1","1","1">>, courseTitle |-> "Intro to CS I",
       courseDesc |-> "programming", numUnits |-> 4],
      [campusId |-> UH_MANOA, coursePrefix |-> <<"A","R","T">>,
       courseNumber |-> <<"1","0","1">>, courseTitle |-> "Intro to Art",
       courseDesc |-> "", numUnits |-> 3],
      [campusId |-> UH_HILO, coursePrefix |-> <<"M","A","T","H">>,
       courseNumber |-> <<"2","1","5">>, courseTitle |-> "Applied Calculus",
       courseDesc |-> "calculus", numUnits |-> 4] }

ICS111 == <<"I","C","S"," ","1","1","1">>
MATH215or241 == <<"M","A","T","H"," ","2","1","5"," ","o","r"," ","2","4","1">>
ART101 == <<"A","R","T"," ","1","0","1">>

\* contents of manoa_degree_pathways.json
loadPathwayTemplates ==
    << Template(<<"C","S">>, <<"U","H"," ","M","a","n","o","a">>, 120,
         << Year(1, << Semester(<<ICS111, MATH215or241>>),
                       Semester(<<<<"F","W">>>>) >>),
            Year(2, << Semester(<<ICS111, <<"E","l","e","c","t","i","v","e">>>>) >>) >>),
       Template(<<"A","r","t"," ">>, <<>>, 90,
         << Year(1, << Semester(<<ART101>>) >>) >>) >>

----------------------------------------------------------------------------
(* getCampusInfo *)

NotFound == [k |-> "notfound"]

getCampusInfo(campusNameOrId) ==
    LET byId == FirstIndex(CampusTable, LAMBDA c : c.id = campusNameOrId)
        NameOrAlias(c) ==
            LET aliases == IF c.aliases.k = "arr" THEN c.aliases.v ELSE <<>>
            IN  \/ toLowerCase(c.name) = toLowerCase(campusNameOrId)
                \/ \E a \in 1..Len(aliases) :
                       toLowerCase(aliases[a].v) = toLowerCase(campusNameOrId)
        byName == FirstIndex(CampusTable, NameOrAlias)
    IN  IF byId # 0 THEN CampusTable[byId]
        ELSE IF byName # 0 THEN CampusTable[byName]
        ELSE NotFound

----------------------------------------------------------------------------
(* getPathwayCoursesFromDB *)

\* code.match(/^([A-Z]+)\s+(\d+[A-Z]*)$/) as {prefix, number}, or Null
courseQuery(code) ==
    IF CodeMatchAt(code, 1) = Len(code) + 1
    THEN LET a == RunEnd(code, 1, IsUpper)
             b == RunEnd(code, a, IsSpace)
         IN  [prefix |-> SubSeq(code, 1, a - 1), number |-> SubSeq(code, b, Len(code))]
    ELSE Null

courseQueries(courseCodes) ==
    SelectSeq([i \in 1..Len(courseCodes) |-> courseQuery(courseCodes[i])],
              LAMBDA q : q # Null)

\* the entries one successful query adds to courseMap
queryEntries(query, campusId) ==
    LET matchingCourses ==
            {c \in CourseTable : c.campusId = campusId
                /\ c.coursePrefix = query.prefix /\ c.courseNumber = query.number}
    IN  [key \in {c.coursePrefix \o <<" ">> \o c.courseNumber : c \in matchingCourses} |->
            LET c == CHOOSE c \in matchingCourses :
                        c.coursePrefix \o <<" ">> \o c.courseNumber = key
            IN  [code |-> key, title |-> c.courseTitle,
                 description |-> c.courseDesc, units |-> c.numUnits]]

----------------------------------------------------------------------------
(* processPathwayWithAI after the model call: lines 239-256 *)

TypeError == [k |-> "TypeError"]

\* s.activities = ...; s.milestones = ... on one semester
normalizeSemester(s) ==
    IF s.k # "obj" THEN s
    ELSE Obj(With(With(s.f,
            "activities", Or(normalizeStringArray(Get(s.f, "activities")), Arr(<<>>))),
            "milestones", Or(normalizeStringArray(Get(s.f, "milestones")), Arr(<<>>))))

\* y.semesters || []
semestersOf(y) ==
    IF y.k = "obj" THEN Or(Get(y.f, "semesters"), Arr(<<>>)) ELSE Arr(<<>>)

\* the loops of lines 248-253 raise a TypeError on this year
yearThrows(y) ==
    \/ y.k \in {"null", "undefined"}
    \/ semestersOf(y).k # "arr"
    \/ \E i \in 1..Len(semestersOf(y).v) : semestersOf(y).v[i].k \notin {"obj", "arr"}

normalizeYear(y) ==
    IF y.k = "obj" /\ Truthy(Get(y.f, "semesters"))
    THEN LET ss == Get(y.f, "semesters").v
         IN  Obj(With(y.f, "semesters", Arr([i \in 1..Len(ss) |-> normalizeSemester(ss[i])])))
    ELSE y

\* the parsed object after lines 247-254, or TypeError
normalizeParsed(parsed) ==
    LET years == Get(parsed.f, "years")
    IN  IF years.k # "arr" THEN parsed
        ELSE IF \E i \in 1..Len(years.v) : yearThrows(years.v[i]) THEN TypeError
        ELSE Obj(With(parsed.f, "years",
                 Arr([i \in 1..Len(years.v) |-> normalizeYear(years.v[i])])))

----------------------------------------------------------------------------
(* The merge of lines 351-362 *)

finalRoadmap(processedRoadmapV, matchingPathwayV, campusInfoV, profileDataV) ==
    LET years == Get(processedRoadmapV.f, "years")
        otherFields == Without(processedRoadmapV.f, "years")
    IN  Obj([years |-> Or(years, Arr(<<>>))]
            @@ otherFields
            @@ [program_name |-> Or(Get(processedRoadmapV.f, "program_name"),
                                    Str(matchingPathwayV.program_name)),
                institution |-> Or(Get(processedRoadmapV.f, "institution"),
                                   Str(campusInfoV.name)),
                total_credits |-> Or(Get(processedRoadmapV.f, "total_credits"),
                                     Num(matchingPathwayV.total_credits)),
                career_goal |-> Or(profileDataV.career, Undefined),
                interests |-> Or(profileDataV.interests, Undefined),
                skills |-> Or(profileDataV.skills, Undefined)])

----------------------------------------------------------------------------
(* Inputs of an invocation: profile rows and model responses *)

Absent == [k |-> "absent"]

\* an object literal holding only the keys that are present
Fields(rec) == [x \in {y \in DOMAIN rec : rec[y] # Absent} |-> rec[x]]

Colleges ==
    { Str(UH_MANOA), Str(<<"M","A","N","O","A">>), Str(<<"u","h","m">>),
      Str(UH_HILO), Str(<<"M","a","r","s">>), Str(<<>>), Null }

Programs ==
    { Str(<<"c","s">>), Str(<<" ">>), Str(<<"a","r","t">>), Str(<<"r">>),
      Str(<<"a","r","t",",","b","a">>), Str(<<"x">>), Str(<<>>), Null }

Personas ==
    { [career |-> Str(<<"s","w","e">>), interests |-> Arr(<<Str(<<"a","i">>)>>),
       skills |-> Arr(<<Str(<<"p","y">>)>>)],
      [career |-> Str(<<>>), interests |-> Arr(<<>>), skills |-> Null],
      [career |-> Null, interests |-> Null, skills |-> Arr(<<>>)] }

PriorRoadmaps == { Null, Obj([program_name |-> Str(<<"o","l","d">>)]) }

ProfileIds == {1, 2}

\* shapes the model may give activities and milestones
ActivityShapes ==
    { [a |-> Arr(<<Str(<<"a">>), Str(<<"b">>)>>), m |-> Arr(<<Str(<<"c">>), Str(<<"d">>)>>)],
      [a |-> Absent, m |-> Absent],
      [a |-> Arr(<<>>), m |-> Arr(<<Str(<<"a">>)>>)],
      [a |-> Arr(<<Obj([text |-> Str(<<"t">>)]), Num(5), Str(<<" ">>)>>),
       m |-> Arr(<<Str(<<" ","a"," ">>), Null, Obj([id |-> Num(1)])>>)],
      [a |-> Str(<<"a">>), m |-> Null] }

JsSlot(slot) ==
    Obj([name |-> Str(slot.name), credits |-> Num(slot.credits), isRelated |-> Null])
JsSemester(sem, shape) ==
    Obj(Fields([semester_name |-> Str(<<"f">>), credits |-> Num(sem.credits),
                courses |-> Arr([i \in 1..Len(sem.courses) |-> JsSlot(sem.courses[i])]),
                activities |-> shape.a, milestones |-> shape.m]))
JsYear(year, shape) ==
    Obj([year_number |-> Num(year.year_number),
         semesters |-> Arr([i \in 1..Len(year.semesters) |->
                              JsSemester(year.semesters[i], shape)])])
JsYears(years, shape) == [i \in 1..Len(years) |-> JsYear(years[i], shape)]

ReverseSeq(seq) == [i \in 1..Len(seq) |-> seq[Len(seq) + 1 - i]]

\* year trees the model may return for a template: kept, with a year dropped,
\* with a year added, with the slots of each semester reordered, with a
\* semester dropped
YearTrees(tpl) ==
    { tpl.years,
      Tail(tpl.years),
      tpl.years \o <<Head(tpl.years)>>,
      [y \in 1..Len(tpl.years) |->
          [tpl.years[y] EXCEPT !.semesters =
              [i \in 1..Len(@) |-> [@[i] EXCEPT !.courses = ReverseSeq(@)]]]],
      [y \in 1..Len(tpl.years) |->
          [tpl.years[y] EXCEPT !.semesters = Tail(@)]] }

TopLevel(pn, inst, tc, cg, ints, sk, years) ==
    Obj(Fields([program_name |-> pn, institution |-> inst, total_credits |-> tc,
                career_goal |-> cg, interests |-> ints, skills |-> sk,
                years |-> years]))

\* the objects a response may denote for a matched template
Payloads(tpl) ==
    LET kept == Arr(JsYears(tpl.years, CHOOSE sh \in ActivityShapes : sh.a = Absent))
    IN  { TopLevel(pn, inst, tc, Absent, Absent, Absent, kept) :
            pn \in {Absent, Str(<<>>), Str(<<"P">>)},
            inst \in {Absent, Null, Str(<<"I">>)},
            tc \in {Absent, Num(0), Num(130)} }
        \cup
        { TopLevel(Absent, Absent, Absent, c.cg, c.ints, c.sk, kept) :
            c \in { [cg |-> Str(<<"c","e","o">>), ints |-> Arr(<<Str(<<"m">>)>>),
                     sk |-> Arr(<<Str(<<"n">>)>>)],
                    [cg |-> Null, ints |-> Arr(<<>>), sk |-> Absent] } }
        \cup
        { TopLevel(Absent, Absent, Absent, Absent, Absent, Absent, Arr(JsYears(t, sh))) :
            t \in YearTrees(tpl), sh \in ActivityShapes }
        \cup
        { TopLevel(Absent, Absent, Absent, Absent, Absent, Absent, y) :
            y \in {Absent, Arr(<<Null>>), Str(<<"n","o","n","e">>)} }

\* response texts: prose only; an unclosed brace; a bare object; an object in
\* prose; an object followed by a stray brace; two objects; a malformed object
ResponseTexts ==
    { <<"x">>, <<"x","{","k","1">>, <<"{","}">>,
      <<"x","{","k","1",",","k","{","}","}","x">>,
      <<"{","k","1","}","x","}">>, <<"{","}","{","}">>, <<"{","x","}">> }

----------------------------------------------------------------------------
(* generateAndSaveRoadmap: one invocation *)

locals == <<profileData, campusInfo, matchingPathway, pathwayCourses, lookupLog,
            lookupFaults, courseData, text, processedRoadmap>>

PipeInit ==
    /\ pc = "start"
    /\ profileId \in ProfileIds
    /\ \E college \in Colleges, program \in Programs, persona \in Personas,
          prior \in PriorRoadmaps :
          profileRow = [id |-> 1, college |-> college, program |-> program,
                        career |-> persona.career, interests |-> persona.interests,
                        skills |-> persona.skills, roadmap |-> prior, updatedAt |-> 0]
    /\ storeBefore = profileRow
    /\ now = 1
    /\ profileData = Undefined
    /\ campusInfo = Undefined
    /\ matchingPathway = Undefined
    /\ pathwayCourses = <<>>
    /\ lookupLog = <<>>
    /\ lookupFaults = {}
    /\ courseData = <<>>
    /\ text = <<>>
    /\ processedRoadmap = Undefined
    /\ modelCalls = 0
    /\ writes = 0
    /\ error = "none"

PipeOff ==
    /\ pc = "off"
    /\ profileId = 0
    /\ profileRow = Undefined
    /\ storeBefore = Undefined
    /\ now = 0
    /\ profileData = Undefined
    /\ campusInfo = Undefined
    /\ matchingPathway = Undefined
    /\ pathwayCourses = <<>>
    /\ lookupLog = <<>>
    /\ lookupFaults = {}
    /\ courseData = <<>>
    /\ text = <<>>
    /\ processedRoadmap = Undefined
    /\ modelCalls = 0
    /\ writes = 0
    /\ error = "none"

\* throw new Error(...): the fault propagates to the caller
Throw(e) ==
    /\ pc' = "threw"
    /\ error' = e

\* await db.update(profile).set({roadmap, updatedAt: new Date()}).where(id = profileId)
UpdateProfile(roadmap) ==
    /\ profileRow' = IF profileRow.id = profileId
                     THEN [profileRow EXCEPT !.roadmap = roadmap, !.updatedAt = now]
                     ELSE profileRow
    /\ writes' = writes + 1

\* lines 302-316: read the profile, check its required fields
SelectProfile ==
    /\ pc = "start"
    /\ IF profileRow.id # profileId
       THEN Throw("ProfileNotFound") /\ UNCHANGED profileData
       ELSE IF ~Truthy(profileRow.college) \/ ~Truthy(profileRow.program)
       THEN Throw("MissingFields") /\ profileData' = profileRow
       ELSE pc' = "campus" /\ profileData' = profileRow /\ UNCHANGED error
    /\ UNCHANGED <<profileId, storeBefore, profileRow, now, campusInfo, matchingPathway,
                   pathwayCourses, lookupLog, lookupFaults, courseData, text,
                   processedRoadmap, modelCalls, writes>>

\* A variant that clears the roadmap before reporting a missing campus.
ResolveCampusWriteThenThrow ==
    /\ pc = "campus"
    /\ LET c == getCampusInfo(profileData.college.v)
       IN  IF c = NotFound
           THEN UpdateProfile(Null) /\ Throw("CampusNotFound") /\ UNCHANGED campusInfo
           ELSE IF c.id # UH_MANOA
           THEN /\ UpdateProfile(Null)
                /\ pc' = "returned"
                /\ campusInfo' = c
                /\ UNCHANGED error
           ELSE /\ pc' = "match"
                /\ campusInfo' = c
                /\ UNCHANGED <<error, profileRow, writes>>
    /\ UNCHANGED <<profileId, storeBefore, now, profileData, matchingPathway, pathwayCourses,
                   lookupLog, lookupFaults, courseData, text, processedRoadmap,
                   modelCalls>>

\* lines 318-330: resolve the campus; an unsupported campus gets a null roadmap
ResolveCampus ==
    /\ pc = "campus"
    /\ LET c == getCampusInfo(profileData.college.v)
       IN  IF c = NotFound
           THEN Throw("CampusNotFound") /\ UNCHANGED <<campusInfo, profileRow, writes>>
           ELSE IF c.id # UH_MANOA
           THEN /\ UpdateProfile(Null)
                /\ pc' = "returned"
                /\ campusInfo' = c
                /\ UNCHANGED error
           ELSE /\ pc' = "match"
                /\ campusInfo' = c
                /\ UNCHANGED <<error, profileRow, writes>>
    /\ UNCHANGED <<profileId, storeBefore, now, profileData, matchingPathway, pathwayCourses,
                   lookupLog, lookupFaults, courseData, text, processedRoadmap,
                   modelCalls>>

\* lines 332-347: match the template; no match gets a null roadmap
MatchTemplate ==
    /\ pc = "match"
    /\ LET m == findMatchingPathway(profileData.program.v, loadPathwayTemplates)
       IN  IF m = Null
           THEN /\ UpdateProfile(Null)
                /\ pc' = "returned"
                /\ UNCHANGED <<matchingPathway, pathwayCourses>>
           ELSE /\ pc' = "lookup"
                /\ matchingPathway' = m
                /\ pathwayCourses' = extractPathwayCourses(m)
                /\ UNCHANGED <<profileRow, writes>>
    /\ UNCHANGED <<profileId, storeBefore, now, profileData, campusInfo, lookupLog, lookupFaults,
                   courseData, text, processedRoadmap, modelCalls, error>>

\* the query the loop of lines 125-154 issues next
nextQuery == courseQueries(pathwayCourses)[Len(lookupLog) + 1]

\* lines 128-150: one catalog query succeeds
LookupCourse ==
    /\ pc = "lookup"
    /\ Len(lookupLog) < Len(courseQueries(pathwayCourses))
    /\ lookupLog' = Append(lookupLog, nextQuery)
    /\ courseData' = queryEntries(nextQuery, campusInfo.id) @@ courseData
    /\ UNCHANGED <<pc, profileId, storeBefore, profileRow, now, profileData, campusInfo,
                   matchingPathway, pathwayCourses, lookupFaults, text,
                   processedRoadmap, modelCalls, writes, error>>

\* A variant without the try/catch around the query.
LookupFaultUncaught ==
    /\ pc = "lookup"
    /\ Len(lookupLog) < Len(courseQueries(pathwayCourses))
    /\ lookupLog' = Append(lookupLog, nextQuery)
    /\ lookupFaults' = lookupFaults \cup {Len(lookupLog) + 1}
    /\ Throw("CourseLookupFault")
    /\ UNCHANGED <<profileId, storeBefore, profileRow, now, profileData, campusInfo,
                   matchingPathway, pathwayCourses, courseData, text,
                   processedRoadmap, modelCalls, writes>>

\* lines 151-153: one catalog query faults; the fault is logged and skipped
LookupFault ==
    /\ pc = "lookup"
    /\ Len(lookupLog) < Len(courseQueries(pathwayCourses))
    /\ lookupLog' = Append(lookupLog, nextQuery)
    /\ lookupFaults' = lookupFaults \cup {Len(lookupLog) + 1}
    /\ UNCHANGED <<pc, profileId, storeBefore, profileRow, now, profileData, campusInfo,
                   matchingPathway, pathwayCourses, courseData, text,
                   processedRoadmap, modelCalls, writes, error>>

\* lines 156, 168-237: the batch is done; build the prompt, call the model
CallModel ==
    /\ pc = "lookup"
    /\ Len(lookupLog) = Len(courseQueries(pathwayCourses))
    /\ modelCalls' = modelCalls + 1
    /\ \/ /\ text' \in ResponseTexts
          /\ pc' = "parse"
          /\ UNCHANGED error
       \/ /\ Throw("ModelFault")
          /\ UNCHANGED text
    /\ UNCHANGED <<profileId, storeBefore, profileRow, now, profileData, campusInfo,
                   matchingPathway, pathwayCourses, lookupLog, lookupFaults,
                   courseData, processedRoadmap, writes>>

\* lines 239-256: extract, parse and normalize the response
ParseResponse ==
    /\ pc = "parse"
    /\ IF parseOutcome(text) # "parsed"
       THEN Throw(parseOutcome(text)) /\ UNCHANGED processedRoadmap
       ELSE \E parsed \in Payloads(matchingPathway) :
              IF normalizeParsed(parsed) = TypeError
              THEN Throw("TypeError") /\ UNCHANGED processedRoadmap
              ELSE /\ processedRoadmap' = normalizeParsed(parsed)
                   /\ pc' = "merge"
                   /\ UNCHANGED error
    /\ UNCHANGED <<profileId, storeBefore, profileRow, now, profileData, campusInfo,
                   matchingPathway, pathwayCourses, lookupLog, lookupFaults,
                   courseData, text, modelCalls, writes>>

\* lines 351-370: merge and write the roadmap
Persist ==
    /\ pc = "merge"
    /\ UpdateProfile(finalRoadmap(processedRoadmap, matchingPathway, campusInfo, profileData))
    /\ pc' = "returned"
    /\ UNCHANGED <<profileId, storeBefore, now, profileData, campusInfo, matchingPathway,
                   pathwayCourses, lookupLog, lookupFaults, courseData, text,
                   processedRoadmap, modelCalls, error>>

MatchOff == mProgram = <<>> /\ mTemplates = <<>> /\ mResult = Null /\ mPhase = "off"
ParseOff == rText = <<>> /\ rOutcome = "none" /\ rValue = NoMatch /\ rPhase = "off"
ExtractOff == eTemplate = Null /\ eResult = <<>> /\ ePhase = "off"

Init == PipeInit /\ MatchOff /\ ParseOff /\ ExtractOff

Next ==
    \/ (SelectProfile /\ UNCHANGED <<matchVars, parseVars, extrVars>>)
    \/ (ResolveCampus /\ UNCHANGED <<matchVars, parseVars, extrVars>>)
    \/ (MatchTemplate /\ UNCHANGED <<matchVars, parseVars, extrVars>>)
    \/ (LookupCourse /\ UNCHANGED <<matchVars, parseVars, extrVars>>)
    \/ (LookupFault /\ UNCHANGED <<matchVars, parseVars, extrVars>>)
    \/ (CallModel /\ UNCHANGED <<matchVars, parseVars, extrVars>>)
    \/ (ParseResponse /\ UNCHANGED <<matchVars, parseVars, extrVars>>)
    \/ (Persist /\ UNCHANGED <<matchVars, parseVars, extrVars>>)

Spec == Init /\ [][Next]_vars

----------------------------------------------------------------------------
(* Claims about one invocation *)

Finished == pc \in {"returned", "threw"}

\* normalized equality or containment in either direction
NormMatches(program, template) ==
    LET np == trim(toLowerCase(program))
        nt == trim(toLowerCase(template.program_name))
    IN  nt = np \/ includes(nt, np) \/ includes(np, nt)

NoTemplateMatches(program) ==
    \A i \in 1..Len(loadPathwayTemplates) : ~NormMatches(program, loadPathwayTemplates[i])

\* C1: an invocation either returns after exactly one update of the profile
\* (roadmap and timestamp written together) or throws having updated nothing,
\* so that the stored row is the one from before the call; no update happens
\* before the invocation's last step.
C1_OneUpdateOrNoWrite ==
    /\ pc = "returned" =>
          /\ writes = 1
          /\ error = "none"
          /\ profileRow.updatedAt = now
          /\ profileRow.roadmap.k \in {"null", "obj"}
          /\ profileRow = [storeBefore EXCEPT !.roadmap = profileRow.roadmap,
                                              !.updatedAt = now]
    /\ pc = "threw" =>
          /\ writes = 0
          /\ error \in {"ProfileNotFound", "MissingFields", "CampusNotFound",
                        "ModelFault", "NoJSON", "SyntaxError", "TypeError"}
          /\ profileRow = storeBefore
    /\ ~Finished => writes = 0 /\ profileRow = storeBefore /\ error = "none"

\* C1 witness: the response's span is not valid JSON, the invocation threw,
\* and the roadmap stored before the call is still there.
C1_Witness ==
    /\ pc = "threw"
    /\ error = "SyntaxError"
    /\ storeBefore.roadmap # Null
    /\ profileRow.roadmap = storeBefore.roadmap

ShortCircuitCase ==
    /\ campusInfo # Undefined
    /\ \/ campusInfo.id # UH_MANOA
       \/ NoTemplateMatches(profileData.program.v)

\* C2: when the resolved campus is not the supported one, or no template
\* matches the program, the invocation never calls the model, never throws,
\* never enters lookup or synthesis, and ends having written roadmap = null
\* and the new timestamp in its single update.
C2_ShortCircuit ==
    ShortCircuitCase =>
        /\ modelCalls = 0
        /\ pc \in {"match", "returned"}
        /\ pc = "match" => campusInfo.id = UH_MANOA /\ writes = 0
        /\ pc = "returned" =>
              /\ profileRow.roadmap = Null
              /\ profileRow.updatedAt = now
              /\ writes = 1
              /\ error = "none"

\* C2 witness: a supported campus, a program no template matches, and a
\* previously stored roadmap replaced by null.
C2_Witness ==
    /\ pc = "returned"
    /\ campusInfo # Undefined
    /\ campusInfo.id = UH_MANOA
    /\ NoTemplateMatches(profileData.program.v)
    /\ storeBefore.roadmap # Null
    /\ profileRow.roadmap = Null
    /\ modelCalls = 0

\* the catalog has this (prefix, number) for the campus
HasEntry(query, campusId) ==
    \E c \in CourseTable : c.campusId = campusId
        /\ c.coursePrefix = query.prefix /\ c.courseNumber = query.number

QueryKey(query) == query.prefix \o <<" ">> \o query.number

\* C6: the lookups are issued in the order of the extracted codes, whatever
\* subset of them faults; the map holds the enrichment of exactly the codes
\* whose lookup did not fault and found a catalog entry of the campus; no
\* lookup fault is thrown; the model is called only after every code has been
\* looked up.
C6_LookupFaultIsolation ==
    matchingPathway # Undefined =>
        LET queries == courseQueries(extractPathwayCourses(matchingPathway))
            found == {i \in 1..Len(lookupLog) :
                        i \notin lookupFaults /\ HasEntry(lookupLog[i], campusInfo.id)}
        IN  /\ Len(lookupLog) <= Len(queries)
            /\ lookupLog = SubSeq(queries, 1, Len(lookupLog))
            /\ lookupFaults \subseteq 1..Len(lookupLog)
            /\ DOMAIN courseData = {QueryKey(lookupLog[i]) : i \in found}
            /\ \A i \in found :
                  \E c \in CourseTable :
                     /\ c.campusId = campusInfo.id
                     /\ c.coursePrefix = lookupLog[i].prefix
                     /\ c.courseNumber = lookupLog[i].number
                     /\ courseData[QueryKey(lookupLog[i])] =
                           [code |-> QueryKey(lookupLog[i]), title |-> c.courseTitle,
                            description |-> c.courseDesc, units |-> c.numUnits]
            /\ error # "CourseLookupFault"
            /\ (modelCalls > 0 \/ pc \in {"parse", "merge"}) => lookupLog = queries
            /\ (pc = "lookup" /\ lookupFaults # {}) => error = "none" /\ writes = 0

\* C6 witness: one lookup faulted, another found its entry, and the
\* invocation went on to persist a synthesized roadmap.
C6_Witness ==
    /\ pc = "returned"
    /\ lookupFaults # {}
    /\ lookupFaults # 1..Len(lookupLog)
    /\ DOMAIN courseData # {}
    /\ modelCalls = 1
    /\ profileRow.roadmap # Null

\* the invocation persisted a roadmap after synthesis
Synthesized == pc = "returned" /\ modelCalls = 1

persisted == profileRow.roadmap.f

\* the semesters of a persisted years value, as far as it is a tree
PersistedSemesters ==
    LET years == persisted.years
        ys == IF years.k = "arr" THEN years.v ELSE <<>>
    IN  UNION { LET ss == IF ys[y].k = "obj" THEN Get(ys[y].f, "semesters") ELSE Undefined
                IN  IF ss.k = "arr" THEN {ss.v[i] : i \in 1..Len(ss.v)} ELSE {}
                : y \in 1..Len(ys) }

\* a years value has the years, semesters and slot counts of the template
SameShape(years, tpl) ==
    /\ years.k = "arr"
    /\ Len(years.v) = Len(tpl.years)
    /\ \A y \in 1..Len(tpl.years) :
          /\ years.v[y].k = "obj"
          /\ Get(years.v[y].f, "semesters").k = "arr"
          /\ LET ss == Get(years.v[y].f, "semesters").v
                 ts == tpl.years[y].semesters
             IN  /\ Len(ss) = Len(ts)
                 /\ \A i \in 1..Len(ts) :
                       /\ ss[i].k = "obj"
                       /\ Get(ss[i].f, "courses").k = "arr"
                       /\ Len(Get(ss[i].f, "courses").v) = Len(ts[i].courses)

\* C4: every roadmap persisted after synthesis has exactly the years of the
\* matched template, each with the template year's semesters, each with the
\* template semester's number of course slots, for any model response.
C4_TreeShapePreserved ==
    Synthesized => SameShape(persisted.years, matchingPathway)

\* an array of at least two non-empty trimmed strings
TwoTrimmedStrings(x) ==
    /\ x.k = "arr"
    /\ Len(x.v) >= 2
    /\ \A i \in 1..Len(x.v) :
          x.v[i].k = "str" /\ x.v[i].v # <<>> /\ trim(x.v[i].v) = x.v[i].v

\* C5: in every semester of a roadmap persisted after synthesis, activities
\* and milestones are arrays of at least two non-empty trimmed strings,
\* whatever shape the model gave them.
C5_ActivitiesAndMilestones ==
    Synthesized =>
        \A sem \in PersistedSemesters :
            /\ sem.k = "obj"
            /\ TwoTrimmedStrings(Get(sem.f, "activities"))
            /\ TwoTrimmedStrings(Get(sem.f, "milestones"))

\* the response carries a value: not absent, not null, not empty
Carries(x) == x.k \notin {"undefined", "null"} /\ ~(x.k = "str" /\ x.v = <<>>)

\* C7: program_name, institution and total_credits of the persisted roadmap
\* are the synthesized value when the response carries one, otherwise the
\* matched template's; the campus's name stands in for the institution only
\* when the template has none.
C7_TopLevelFallbacks ==
    Synthesized =>
        LET resp == processedRoadmap.f
        IN  /\ persisted.program_name =
                 IF Carries(Get(resp, "program_name")) THEN Get(resp, "program_name")
                 ELSE Str(matchingPathway.program_name)
            /\ persisted.total_credits =
                 IF Carries(Get(resp, "total_credits")) THEN Get(resp, "total_credits")
                 ELSE Num(matchingPathway.total_credits)
            /\ persisted.institution =
                 IF Carries(Get(resp, "institution")) THEN Get(resp, "institution")
                 ELSE IF matchingPathway.institution # <<>>
                      THEN Str(matchingPathway.institution)
                 ELSE Str(campusInfo.name)

\* a profile field is empty: null, the empty string or the empty array
EmptyField(x) ==
    x.k = "null" \/ (x.k = "str" /\ x.v = <<>>) \/ (x.k = "arr" /\ x.v = <<>>)

FromProfile(x) == IF EmptyField(x) THEN Undefined ELSE x

\* C8: career_goal, interests and skills of the persisted roadmap are the
\* values of the profile row read by the invocation, never the response's,
\* and undefined when the profile field is empty.
C8_ProfileFields ==
    Synthesized =>
        /\ persisted.career_goal = FromProfile(profileData.career)
        /\ persisted.interests = FromProfile(profileData.interests)
        /\ persisted.skills = FromProfile(profileData.skills)

----------------------------------------------------------------------------
(* findMatchingPathway over bounded program names and template collections *)

NameAlphabet == {"A", "a", "b", " "}
MaxProgramLen == 3
MaxTemplateNameLen == 2
MaxTemplates == 2

MatchInit ==
    /\ mProgram \in SeqsUpTo(NameAlphabet, MaxProgramLen)
    /\ mTemplates \in SeqsUpTo({Template(n, <<>>, 0, <<>>) :
                                  n \in SeqsUpTo(NameAlphabet, MaxTemplateNameLen)},
                               MaxTemplates)
    /\ mResult = Null
    /\ mPhase = "input"

Match ==
    /\ mPhase = "input"
    /\ mResult' = findMatchingPathway(mProgram, mTemplates)
    /\ mPhase' = "done"
    /\ UNCHANGED <<mProgram, mTemplates>>

InitMatch == PipeOff /\ MatchInit /\ ParseOff /\ ExtractOff
NextMatch == Match /\ UNCHANGED <<pipeVars, parseVars, extrVars>>
SpecMatch == InitMatch /\ [][NextMatch]_vars

\* C3: findMatchingPathway returns a template exactly when some template of
\* the collection matches the program under lower-casing and trimming of both
\* names (equality, or containment in either direction), and none otherwise.
C3_MatchIffNormalizedMatch ==
    mPhase = "done" =>
        /\ (mResult # Null) <=>
              (\E i \in 1..Len(mTemplates) : NormMatches(mProgram, mTemplates[i]))
        /\ mResult # Null =>
              \E i \in 1..Len(mTemplates) :
                  mResult = mTemplates[i] /\ NormMatches(mProgram, mTemplates[i])

----------------------------------------------------------------------------
(* Response parsing over bounded texts *)

TextAlphabet == {"{", "}", "k", "1", ",", "x"}
MaxTextLen == 5

ParseInit ==
    /\ rText \in SeqsUpTo(TextAlphabet, MaxTextLen)
    /\ rOutcome = "none"
    /\ rValue = NoMatch
    /\ rPhase = "input"

\* lines 239-244 on rText: the outcome and the span handed to JSON.parse
ParseText ==
    /\ rPhase = "input"
    /\ rOutcome' = parseOutcome(rText)
    /\ rValue' = jsonMatch(rText)
    /\ rPhase' = "done"
    /\ UNCHANGED rText

InitParse == PipeOff /\ MatchOff /\ ParseInit /\ ExtractOff
NextParse == ParseText /\ UNCHANGED <<pipeVars, matchVars, extrVars>>
SpecParse == InitParse /\ [][NextParse]_vars

\* number of "{" minus number of "}" among the first n characters
Depth(t, n) ==
    Cardinality({i \in 1..n : t[i] = "{"}) - Cardinality({i \in 1..n : t[i] = "}"})

\* t[i..j] opens at i and closes, for the first time, at j
BalancedSpan(t, i, j) ==
    /\ t[i] = "{"
    /\ t[j] = "}"
    /\ Depth(t, j) = Depth(t, i - 1)
    /\ \A m \in i..(j - 1) : Depth(t, m) > Depth(t, i - 1)

BalancedSpans(t) ==
    {p \in (1..Len(t)) \X (1..Len(t)) : p[1] < p[2] /\ BalancedSpan(t, p[1], p[2])}

\* the first balanced "{...}" span of t; only used when one exists
FirstBalanced(t) ==
    LET p == CHOOSE p \in BalancedSpans(t) : \A q \in BalancedSpans(t) : p[1] <= q[1]
    IN  SubSeq(t, p[1], p[2])

\* C9 as stated: the first balanced-brace span is what is parsed; a response
\* whose first balanced span is a well-formed object parses to that object
\* whatever follows it, and a parse error arises only when there is no such
\* span or it is not valid JSON.
C9_FirstBalancedSpan ==
    rPhase = "done" =>
        /\ (BalancedSpans(rText) # {} /\ JsonParses(FirstBalanced(rText))) =>
              rOutcome = "parsed" /\ rValue = FirstBalanced(rText)
        /\ rOutcome # "parsed" =>
              BalancedSpans(rText) = {} \/ ~JsonParses(FirstBalanced(rText))

\* C9 as amended: the span parsed runs from the first "{" of the text to its
\* last "}"; there is no JSON error exactly when some "{" precedes some "}";
\* the parse succeeds exactly when that whole span is valid JSON, and fails
\* with a syntax error otherwise.
C9_FirstToLastBrace ==
    rPhase = "done" =>
        LET braces == {p \in (1..Len(rText)) \X (1..Len(rText)) :
                          p[1] < p[2] /\ rText[p[1]] = "{" /\ rText[p[2]] = "}"}
        IN  /\ rOutcome = "NoJSON" <=> braces = {}
            /\ rOutcome \in {"NoJSON", "SyntaxError", "parsed"}
            /\ braces # {} =>
                  \E p \in braces :
                     /\ \A q \in braces : p[1] <= q[1] /\ q[2] <= p[2]
                     /\ rValue = SubSeq(rText, p[1], p[2])
                     /\ rOutcome = "parsed" <=> JsonParses(SubSeq(rText, p[1], p[2]))

\* C9 witness: a well-formed first balanced span followed by a closing brace;
\* the span parsed is longer than it and the parse fails.
C9_Witness ==
    /\ rPhase = "done"
    /\ BalancedSpans(rText) # {}
    /\ JsonParses(FirstBalanced(rText))
    /\ rValue # FirstBalanced(rText)
    /\ rOutcome = "SyntaxError"

----------------------------------------------------------------------------
(* extractPathwayCourses over bounded templates *)

\* slot names: a fixed course, two-option choices, general-education and
\* elective markers
ExtractSlotNames ==
    { ICS111, MATH215or241, ART101,
      <<"I","C","S"," ","2","1","1","/","2","1","2">>,
      <<"I","C","S"," ","1","1","1"," ","o","r"," ","I","C","S"," ","1","4","1">>,
      <<"F","W">>, <<"F","W"," ","(","o","r"," ","F","Q",")">>,
      <<"E","l","e","c","t","i","v","e">>,
      <<"I","C","S"," ","4","0","0","+">>,
      <<"E","E"," ","1","6","0","L">> }

MaxSlots == 2

\* the trees a sequence of slot names is laid out in: one semester; one
\* semester per slot; one year per slot
Layouts(names) ==
    { << Year(1, << Semester(names) >>) >>,
      << Year(1, [i \in 1..Len(names) |-> Semester(<<names[i]>>)]) >>,
      [i \in 1..Len(names) |-> Year(i, << Semester(<<names[i]>>) >>)] }

ExtractInit ==
    /\ \E names \in SeqsUpTo(ExtractSlotNames, MaxSlots) :
          eTemplate \in {Template(<<"C","S">>, <<>>, 120, y) : y \in Layouts(names)}
    /\ eResult = <<>>
    /\ ePhase = "input"

Extract ==
    /\ ePhase = "input"
    /\ eResult' = extractPathwayCourses(eTemplate)
    /\ ePhase' = "done"
    /\ UNCHANGED eTemplate

InitExtract == PipeOff /\ MatchOff /\ ParseOff /\ ExtractInit
NextExtract == Extract /\ UNCHANGED <<pipeVars, matchVars, parseVars>>
SpecExtract == InitExtract /\ [][NextExtract]_vars

IsSeparator(c) == IsSpace(c) \/ c \in {"/", "(", ")", ","}
NotSeparator(c) == ~IsSeparator(c)

\* the words of a slot name, as (first, last) index pairs
Words(name) ==
    { <<i, RunEnd(name, i, NotSeparator) - 1>> :
        i \in {j \in 1..Len(name) :
                 NotSeparator(name[j]) /\ (j = 1 \/ IsSeparator(name[j - 1]))} }

WordAt(name, w) == SubSeq(name, w[1], w[2])
IsPrefixWord(word) == word # <<>> /\ \A i \in 1..Len(word) : IsUpper(word[i])
IsNumberWord(word) ==
    /\ RunEnd(word, 1, IsDigit) > 1
    /\ RunEnd(word, RunEnd(word, 1, IsDigit), IsUpper) = Len(word) + 1

\* a slot name offers a choice
IsChoice(name) ==
    \/ \E i \in 1..Len(name) : name[i] = "/"
    \/ \E w \in Words(name) : WordAt(name, w) = <<"o","r">>

\* one code per alternative of a choice: every number word with the nearest
\* prefix word before it
Alternatives(name) ==
    { LET before == {p \in Words(name) : p[2] < w[1] /\ IsPrefixWord(WordAt(name, p))}
          prefix == CHOOSE p \in before : \A q \in before : q[1] <= p[1]
      IN  WordAt(name, prefix) \o <<" ">> \o WordAt(name, w)
      : w \in {w \in Words(name) :
                 /\ IsNumberWord(WordAt(name, w))
                 /\ \E p \in Words(name) : p[2] < w[1] /\ IsPrefixWord(WordAt(name, p))} }

\* the substrings of a name that have the shape of a code and extend no further
ShapedSubstrings(name) ==
    { SubSeq(name, p[1], p[2]) :
        p \in {p \in (1..Len(name)) \X (1..Len(name)) :
                 /\ p[1] <= p[2]
                 /\ CodeMatchAt(SubSeq(name, p[1], p[2]), 1) = p[2] - p[1] + 2
                 /\ (p[1] = 1 \/ ~IsUpper(name[p[1] - 1]))
                 /\ (p[2] = Len(name) \/ ~(IsUpper(name[p[2] + 1]) \/ IsDigit(name[p[2] + 1])))} }

Range(seq) == {seq[i] : i \in 1..Len(seq)}

\* C10: the extracted codes are duplicate-free, hold a code for each
\* alternative of every choice slot joined by "or" or "/", hold every
\* substring of every slot name that has the shape of a code, and hold
\* nothing else.
C10_ExtractsEveryAlternative ==
    ePhase = "done" =>
        LET names == Range(SlotNames(eTemplate))
        IN  /\ \A i, j \in 1..Len(eResult) : i # j => eResult[i] # eResult[j]
            /\ \A n \in names : IsChoice(n) => Alternatives(n) \subseteq Range(eResult)
            /\ \A n \in names : ShapedSubstrings(n) \subseteq Range(eResult)
            /\ Range(eResult) \subseteq UNION {ShapedSubstrings(n) : n \in names}


====
